---- MODULE Spec2Model ----
(***************************************************************************)
(* The POST /api/extract handler of src/src/index.ts as a state machine.   *)
(*                                                                         *)
(* Text is a sequence of one-character strings, so that the brace search   *)
(* (text.match(/\{[\s\S]*\}/)) and JSON.parse work on characters, as the   *)
(* code does.  A JavaScript value is a record tagged by k:                 *)
(*   undef | null | bool | num | str | arr | obj                           *)
(* with its payload in v (an object is the sequence of its <<key, value>>  *)
(* members in source order; a read takes the last member of a key, as      *)
(* JSON.parse keeps the last duplicate).                                   *)
(***************************************************************************)
EXTENDS Integers, Sequences, FiniteSets, TLC

(***************************************************************************)
(* JavaScript values                                                       *)
(***************************************************************************)
Undef == [k |-> "undef", v |-> 0]
JNull == [k |-> "null", v |-> 0]
JBool(b) == [k |-> "bool", v |-> b]
JNum(n) == [k |-> "num", v |-> n]
JStr(s) == [k |-> "str", v |-> s]
JArr(a) == [k |-> "arr", v |-> a]
JObj(m) == [k |-> "obj", v |-> m]

\* x == null || x === undefined: what ?? and ?. test.
Nullish(x) == x.k \in {"undef", "null"}

\* !!x
Truthy(x) ==
    CASE x.k \in {"undef", "null"} -> FALSE
      [] x.k = "bool" -> x.v
      [] x.k = "num" -> x.v # 0
      [] x.k = "str" -> Len(x.v) > 0
      [] OTHER -> TRUE

\* A variant of StrictEqStr: x == lit, the loose equality, under which an
\* array of one string equals that string.
LooseEqStr(x, lit) ==
    \/ x.k = "str" /\ x.v = lit
    \/ x.k = "arr" /\ Len(x.v) = 1 /\ x.v[1].k = "str" /\ x.v[1].v = lit

\* x === y for y a string literal of the code.
StrictEqStr(x, lit) == x.k = "str" /\ x.v = lit

\* The indices of the members of object o named key.
MemberIdx(o, key) == {i \in 1..Len(o.v) : o.v[i][1] = key}

\* o.key for a non-nullish o: an own member of an object, undefined on every
\* primitive and (for the non-index names the code reads) on an array.
GetProp(o, key) ==
    IF o.k = "obj" /\ MemberIdx(o, key) # {}
    THEN o.v[CHOOSE i \in MemberIdx(o, key) : \A j \in MemberIdx(o, key) : j <= i][2]
    ELSE Undef

\* o?.key
OptProp(o, key) == IF Nullish(o) THEN Undef ELSE GetProp(o, key)

\* a?.[0]: the first element of an array, the first character of a string,
\* the member "0" of an object.
OptFirst(a) ==
    CASE Nullish(a) -> Undef
      [] a.k = "arr" -> IF Len(a.v) > 0 THEN a.v[1] ELSE Undef
      [] a.k = "str" -> IF Len(a.v) > 0 THEN JStr(<<a.v[1]>>) ELSE Undef
      [] a.k = "obj" -> GetProp(a, <<"0">>)
      [] OTHER -> Undef

(***************************************************************************)
(* The names and literals of the code, as character sequences.             *)
(***************************************************************************)
k_results == <<"r", "e", "s", "u", "l", "t", "s">>
k_type == <<"t", "y", "p", "e">>
k_value == <<"v", "a", "l", "u", "e">>
k_uncertain == <<"u", "n", "c", "e", "r", "t", "a", "i", "n">>
k_image == <<"i", "m", "a", "g", "e">>
k_error == <<"e", "r", "r", "o", "r">>
k_message == <<"m", "e", "s", "s", "a", "g", "e">>
k_choices == <<"c", "h", "o", "i", "c", "e", "s">>
k_content == <<"c", "o", "n", "t", "e", "n", "t">>
s_vin == <<"v", "i", "n">>
s_reg == <<"r", "e", "g">>

(***************************************************************************)
(* JSON.parse, by recursive descent over the characters.  Numbers are the  *)
(* integers (no fraction, no exponent) and the escapes are \" \\ \/ : the  *)
(* texts of the model hold no other.  A parse result is                    *)
(* [ok, val, pos]: whether a value was read, the value, and the index      *)
(* after it.                                                               *)
(***************************************************************************)
Whitespace == {" ", "\n", "\t", "\r"}
Digits == <<"0", "1", "2", "3", "4", "5", "6", "7", "8", "9">>
IsDigit(c) == \E d \in 1..10 : Digits[d] = c
DigitVal(c) == (CHOOSE d \in 1..10 : Digits[d] = c) - 1

Fail(i) == [ok |-> FALSE, val |-> Undef, pos |-> i]
Ok(v, i) == [ok |-> TRUE, val |-> v, pos |-> i]

RECURSIVE SkipWs(_, _)
SkipWs(s, i) ==
    IF i <= Len(s) /\ s[i] \in Whitespace THEN SkipWs(s, i + 1) ELSE i

\* The literal word at position i (true, false, null).
ParseLiteral(s, i, word, val) ==
    IF i + Len(word) - 1 <= Len(s) /\ SubSeq(s, i, i + Len(word) - 1) = word
    THEN Ok(val, i + Len(word))
    ELSE Fail(i)

RECURSIVE ParseDigits(_, _, _)
ParseDigits(s, i, acc) ==
    IF i <= Len(s) /\ IsDigit(s[i])
    THEN ParseDigits(s, i + 1, acc * 10 + DigitVal(s[i]))
    ELSE Ok(JNum(acc), i)

\* -?(0|[1-9][0-9]*)
ParseNumber(s, i) ==
    LET neg == s[i] = "-"
        j == IF neg THEN i + 1 ELSE i
    IN  IF j > Len(s) \/ ~IsDigit(s[j]) THEN Fail(i)
        ELSE LET r == IF s[j] = "0" THEN Ok(JNum(0), j + 1)
                      ELSE ParseDigits(s, j, 0)
             IN  IF neg THEN Ok(JNum(0 - r.val.v), r.pos) ELSE r

\* The characters of a string from position i (after the opening quote) to
\* the closing quote.
RECURSIVE ParseChars(_, _, _)
ParseChars(s, i, acc) ==
    IF i > Len(s) THEN Fail(i)
    ELSE IF s[i] = "\"" THEN Ok(JStr(acc), i + 1)
    ELSE IF s[i] = "\\"
         THEN IF i + 1 <= Len(s) /\ s[i + 1] \in {"\"", "\\", "/"}
              THEN ParseChars(s, i + 2, Append(acc, s[i + 1]))
              ELSE Fail(i)
    ELSE IF s[i] \in {"\n", "\t", "\r"} THEN Fail(i)
    ELSE ParseChars(s, i + 1, Append(acc, s[i]))

ParseString(s, i) ==
    IF i <= Len(s) /\ s[i] = "\"" THEN ParseChars(s, i + 1, <<>>) ELSE Fail(i)

RECURSIVE ParseValue(_, _)
RECURSIVE ParseElements(_, _, _)
RECURSIVE ParseMembers(_, _, _)

\* value (ws "," ws value)* ws "]", from the first value at position i.
ParseElements(s, i, acc) ==
    LET e == ParseValue(s, i)
        j == SkipWs(s, e.pos)
    IN  IF ~e.ok \/ j > Len(s) THEN Fail(i)
        ELSE IF s[j] = "]" THEN Ok(JArr(Append(acc, e.val)), j + 1)
        ELSE IF s[j] = "," THEN ParseElements(s, SkipWs(s, j + 1), Append(acc, e.val))
        ELSE Fail(j)

\* string ws ":" ws value (ws "," ws member)* ws "}", from the first key at i.
ParseMembers(s, i, acc) ==
    LET key == ParseString(s, i)
        c == SkipWs(s, key.pos)
    IN  IF ~key.ok \/ c > Len(s) \/ s[c] # ":" THEN Fail(i)
        ELSE LET e == ParseValue(s, SkipWs(s, c + 1))
                 j == SkipWs(s, e.pos)
                 more == Append(acc, <<key.val.v, e.val>>)
             IN  IF ~e.ok \/ j > Len(s) THEN Fail(i)
                 ELSE IF s[j] = "}" THEN Ok(JObj(more), j + 1)
                 ELSE IF s[j] = "," THEN ParseMembers(s, SkipWs(s, j + 1), more)
                 ELSE Fail(j)

ParseValue(s, i) ==
    IF i > Len(s) THEN Fail(i)
    ELSE CASE s[i] = "{" ->
                LET j == SkipWs(s, i + 1)
                IN  IF j <= Len(s) /\ s[j] = "}" THEN Ok(JObj(<<>>), j + 1)
                    ELSE ParseMembers(s, j, <<>>)
           [] s[i] = "[" ->
                LET j == SkipWs(s, i + 1)
                IN  IF j <= Len(s) /\ s[j] = "]" THEN Ok(JArr(<<>>), j + 1)
                    ELSE ParseElements(s, j, <<>>)
           [] s[i] = "\"" -> ParseString(s, i)
           [] s[i] = "t" -> ParseLiteral(s, i, <<"t", "r", "u", "e">>, JBool(TRUE))
           [] s[i] = "f" -> ParseLiteral(s, i, <<"f", "a", "l", "s", "e">>, JBool(FALSE))
           [] s[i] = "n" -> ParseLiteral(s, i, <<"n", "u", "l", "l">>, JNull)
           [] s[i] = "-" \/ IsDigit(s[i]) -> ParseNumber(s, i)
           [] OTHER -> Fail(i)

\* A variant of JSONParse: the first value of s, whatever follows it.
JSONParsePrefix(s) == ParseValue(s, SkipWs(s, 1))

\* JSON.parse(s): one value with only whitespace around it, or a SyntaxError
\* (ok = FALSE).
JSONParse(s) ==
    LET r == ParseValue(s, SkipWs(s, 1))
    IN  IF r.ok /\ SkipWs(s, r.pos) = Len(s) + 1 THEN r ELSE Fail(r.pos)


(***************************************************************************)
(* text.match(/\{[\s\S]*\}/): the leftmost "{" that has a "}" after it,    *)
(* and, the star being greedy, everything up to the last "}".              *)
(***************************************************************************)
RECURSIVE FirstIndex(_, _, _)
FirstIndex(s, c, i) ==
    IF i > Len(s) THEN 0 ELSE IF s[i] = c THEN i ELSE FirstIndex(s, c, i + 1)

RECURSIVE LastIndex(_, _, _)
LastIndex(s, c, i) ==
    IF i < 1 THEN 0 ELSE IF s[i] = c THEN i ELSE LastIndex(s, c, i - 1)

\* A variant of BraceMatch: the lazy star, which stops at the first "}" after
\* the "{".
BraceMatchLazy(s) ==
    LET open == FirstIndex(s, "{", 1)
        close == IF open = 0 THEN 0 ELSE FirstIndex(s, "}", open + 1)
    IN  IF open > 0 /\ close > open
        THEN [found |-> TRUE, region |-> SubSeq(s, open, close)]
        ELSE [found |-> FALSE, region |-> <<>>]

\* A variant of BraceMatch: a "{" and a "}" anywhere in the text, in either
\* order.
BraceMatchUnordered(s) ==
    LET open == FirstIndex(s, "{", 1)
        close == LastIndex(s, "}", Len(s))
    IN  IF open > 0 /\ close > 0
        THEN [found |-> TRUE, region |-> SubSeq(s, open, close)]
        ELSE [found |-> FALSE, region |-> <<>>]

\* [found, region]: jsonMatch is null (found = FALSE) or jsonMatch[0] = region.
BraceMatch(s) ==
    LET open == FirstIndex(s, "{", 1)
        close == LastIndex(s, "}", Len(s))
    IN  IF open > 0 /\ close > open
        THEN [found |-> TRUE, region |-> SubSeq(s, open, close)]
        ELSE [found |-> FALSE, region |-> <<>>]

(***************************************************************************)
(* Responses and exceptions.  A fixed message of the code is kept whole,   *)
(* as a string of one element; the message of an exception is named by the *)
(* exception's class.                                                      *)
(***************************************************************************)
Literal(m) == JStr(<<m>>)
MsgNoKey == Literal("Server misconfiguration: missing API key")
MsgNoImage == Literal("Missing 'image' field (expected a data URL)")
MsgNoParse == Literal("Could not parse response from Claude.")
MsgUnknown == Literal("Unknown error")
MsgUpstream(status) == JStr(<<"OpenRouter API error: ", ToString(status)>>)

ErrorBody(msg) == JObj(<< <<k_error, msg>> >>)
ResultsBody(rs) == JObj(<< <<k_results, JArr(rs)>> >>)

\* What a stretch of the handler ends in: a response sent, or an exception.
Respond(status, b) == [t |-> "respond", status |-> status, body |-> b, error |-> "none"]
Throw(name) == [t |-> "throw", status |-> 0, body |-> Undef, error |-> name]

\* Every value thrown in the handler (by fetch, response.json(), a property
\* read, a call of a non-function, JSON.parse) is an Error object.
IsError(name) == name \in {"TypeError", "SyntaxError", "fetch failed"}

\* err instanceof Error ? err.message : "Unknown error"
ErrMessage(name) == IF IsError(name) THEN Literal(name) ELSE MsgUnknown

\* catch (err) { ... res.status(500).json({ error: message }) }
Catch(o) ==
    IF o.t = "throw" THEN Respond(500, ErrorBody(ErrMessage(o.error))) ELSE o

(***************************************************************************)
(* Lines 49-59: the two early returns.                                     *)
(***************************************************************************)
\* !apiKey
NoApiKey(key) == ~Truthy(key)

\* A variant of NoImage: image === undefined, which lets an empty image pass.
NoImageUndefinedOnly(b) == GetProp(b, k_image).k = "undef"

\* !image, for image read off a body that can be destructured.
NoImage(b) == ~Truthy(GetProp(b, k_image))

(***************************************************************************)
(* Lines 88-95: a reply whose status is not 2xx.  d is what                *)
(* response.json() settles to: a value, or Rejected, which                 *)
(* .catch(() => ({})) turns into the empty object.                         *)
(***************************************************************************)
Rejected == [k |-> "rejected", v |-> 0]

ResponseOk(status) == status >= 200 /\ status <= 299

HandleError(status, d) ==
    LET err == IF d.k = "rejected" THEN JObj(<<>>) ELSE d
    IN  IF Nullish(err) THEN Throw("TypeError")
        ELSE LET m == OptProp(GetProp(err, k_error), k_message)
                 msg == IF Nullish(m) THEN MsgUpstream(status) ELSE m
             IN  Respond(502, ErrorBody(msg))

(***************************************************************************)
(* Lines 97-115: the reply text, the brace match, the parse, the coercion. *)
(***************************************************************************)
\* data.choices?.[0]?.message?.content ?? ""
ReplyText(data) ==
    LET c == OptProp(OptProp(OptFirst(GetProp(data, k_choices)), k_message), k_content)
    IN  IF Nullish(c) THEN JStr(<<>>) ELSE c

\* r.type === "vin" ? "vin" : "reg"
CoerceType(r) ==
    IF StrictEqStr(GetProp(r, k_type), s_vin) THEN JStr(s_vin) ELSE JStr(s_reg)

\* r.value ?? ""
CoerceValue(r) ==
    IF Nullish(GetProp(r, k_value)) THEN JStr(<<>>) ELSE GetProp(r, k_value)

\* !!r.uncertain
CoerceUncertain(r) == JBool(Truthy(GetProp(r, k_uncertain)))

\* The arrow function of .map; reading a property of null throws.
Coerce(r) ==
    JObj(<< <<k_type, CoerceType(r)>>,
            <<k_value, CoerceValue(r)>>,
            <<k_uncertain, CoerceUncertain(r)>> >>)

\* (parsed.results ?? []).map(...)
MapResults(parsed) ==
    LET rs == GetProp(parsed, k_results)
        list == IF Nullish(rs) THEN JArr(<<>>) ELSE rs
    IN  IF list.k # "arr" THEN Throw("TypeError")
        ELSE IF \E i \in 1..Len(list.v) : Nullish(list.v[i]) THEN Throw("TypeError")
        ELSE Respond(200, ResultsBody([i \in 1..Len(list.v) |-> Coerce(list.v[i])]))

\* text.match(...), JSON.parse(jsonMatch[0]) and the mapping.
Normalize(text) ==
    IF text.k # "str" THEN Throw("TypeError")
    ELSE LET m == BraceMatch(text.v)
         IN  IF ~m.found THEN Respond(502, ErrorBody(MsgNoParse))
             ELSE LET p == JSONParse(m.region)
                  IN  IF ~p.ok THEN Throw("SyntaxError") ELSE MapResults(p.val)

\* d is what response.json() settles to on a 2xx reply.
HandleOk(d) ==
    IF d.k = "rejected" THEN Throw("SyntaxError")
    ELSE IF Nullish(d) THEN Throw("TypeError")
    ELSE Normalize(ReplyText(d))


(***************************************************************************)
(* The inputs.  The upstream's reply text is written out from the values   *)
(* it carries, character by character, so that the handler has to find     *)
(* and parse them again.                                                   *)
(***************************************************************************)
RECURSIVE NumChars(_)
NumChars(n) ==
    IF n < 0 THEN <<"-">> \o NumChars(0 - n)
    ELSE IF n < 10 THEN <<Digits[n + 1]>>
    ELSE NumChars(n \div 10) \o <<Digits[(n % 10) + 1]>>

RECURSIVE Quote(_)
Quote(s) ==
    IF s = <<>> THEN <<>>
    ELSE (IF Head(s) \in {"\"", "\\"} THEN <<"\\", Head(s)>> ELSE <<Head(s)>>)
         \o Quote(Tail(s))

\* The JSON text of value x; sp puts a space after each ":" and ",".
RECURSIVE Stringify(_, _)
RECURSIVE StringifyList(_, _, _)
StringifyList(items, isObj, sp) ==
    IF items = <<>> THEN <<>>
    ELSE LET gap == IF sp THEN <<" ">> ELSE <<>>
             one == IF isObj
                    THEN <<"\"">> \o Quote(Head(items)[1]) \o <<"\"", ":">> \o gap
                         \o Stringify(Head(items)[2], sp)
                    ELSE Stringify(Head(items), sp)
         IN  IF Len(items) = 1 THEN one
             ELSE one \o <<",">> \o gap \o StringifyList(Tail(items), isObj, sp)

Stringify(x, sp) ==
    CASE x.k = "null" -> <<"n", "u", "l", "l">>
      [] x.k = "bool" -> IF x.v THEN <<"t", "r", "u", "e">> ELSE <<"f", "a", "l", "s", "e">>
      [] x.k = "num" -> NumChars(x.v)
      [] x.k = "str" -> <<"\"">> \o Quote(x.v) \o <<"\"">>
      [] x.k = "arr" -> <<"[">> \o StringifyList(x.v, FALSE, sp) \o <<"]">>
      [] x.k = "obj" -> <<"{">> \o StringifyList(x.v, TRUE, sp) \o <<"}">>

\* The bounds of the model: the longest prose around a reply, the longest
\* results sequence.
MaxProse == 2
MaxResults == 2

SeqsUpTo(S, n) == UNION {[1..m -> S] : m \in 0..n}

\* Prose: any text over a letter and the two braces.
ProseChars == {"x", "{", "}"}
Prose == SeqsUpTo(ProseChars, MaxProse)

\* The elements an upstream results sequence is made of.
RegRecord ==
    JObj(<< <<k_type, JStr(s_reg)>>,
            <<k_value, JStr(<<"A", "B", "1", "2", " ", "C", "D", "E">>)>>,
            <<k_uncertain, JBool(FALSE)>> >>)
VinRecord ==
    JObj(<< <<k_type, JStr(s_vin)>>,
            <<k_value, JStr(<<"1", "H", "G", "C", "M", "8", "2", "6", "3", "3",
                              "A", "0", "0", "4", "3", "5", "2">>)>> >>)
UnknownRecord ==
    JObj(<< <<k_type, JStr(<<"u", "n", "k", "n", "o", "w", "n">>)>>,
            <<k_value, JStr(<<>>)>>,
            <<k_uncertain, JBool(TRUE)>> >>)
UpperRecord ==
    JObj(<< <<k_type, JStr(<<"V", "I", "N">>)>>, <<k_uncertain, JNum(1)>> >>)
OddRecord ==
    JObj(<< <<k_type, JArr(<<JStr(s_vin)>>)>>,
            <<k_value, JNum(42)>>,
            <<k_uncertain, JStr(<<"n", "o">>)>> >>)
Elements == {RegRecord, VinRecord, UnknownRecord, UpperRecord, OddRecord, JNull, JNum(7)}

\* What the parsed object's results member can be: absent (Undef), a value
\* that is no sequence, a sequence.
NonSequences == {JNull, JStr(s_vin), JNum(5), JBool(FALSE), JObj(<<>>)}
ResultsValues == {Undef} \cup NonSequences \cup {JArr(a) : a \in SeqsUpTo(Elements, MaxResults)}

Doc(rs) == IF rs.k = "undef" THEN JObj(<<>>) ELSE JObj(<< <<k_results, rs>> >>)

\* The reply the system prompt asks for.
PromptReply == Doc(JArr(<<RegRecord>>))

\* A reply text: prose, the JSON objects docs one after the other, prose.
RECURSIVE Concat(_, _)
Concat(docs, sp) ==
    IF docs = <<>> THEN <<>> ELSE Stringify(Head(docs), sp) \o Concat(Tail(docs), sp)

Reply(lead, docs, spaced, trail) ==
    [lead |-> lead, docs |-> docs, spaced |-> spaced, trail |-> trail]
ReplyChars(r) == r.lead \o Concat(r.docs, r.spaced) \o r.trail
NoReply == Reply(<<>>, <<>>, FALSE, <<>>)

Replies ==
    {Reply(l, <<PromptReply>>, FALSE, t) : l \in Prose, t \in Prose}
    \cup {Reply(<<>>, <<Doc(rs)>>, FALSE, <<>>) : rs \in ResultsValues}
    \cup {Reply(l, <<>>, FALSE, <<>>) : l \in Prose}
    \cup {Reply(<<>>, <<PromptReply>>, TRUE, <<"\n">>),
          Reply(<<>>, <<PromptReply, Doc(JArr(<<VinRecord>>))>>, FALSE, <<>>),
          Reply(<<"x">>, <<Doc(JArr(<<>>)), Doc(JArr(<<>>))>>, TRUE, <<"x">>)}

\* The body of a 2xx reply: the chat completion carrying content.
Completion(content) ==
    JObj(<< <<k_choices,
              JArr(<< JObj(<< <<k_message, JObj(<< <<k_content, content>> >>)>> >>) >>)>> >>)

\* 2xx bodies that carry no reply text, or no text at all.
OddCompletions ==
    {Rejected, JNull, JNum(5), JObj(<<>>), JObj(<< <<k_choices, JArr(<<>>)>> >>),
     Completion(JNull), Completion(JNum(5))}

\* The bodies of a reply whose status is not 2xx.
UpstreamError(m) == JObj(<< <<k_error, JObj(<< <<k_message, m>> >>)>> >>)
ErrorBodies ==
    {Rejected, JNull, JNum(5), JObj(<<>>), JObj(<< <<k_error, JNull>> >>),
     JObj(<< <<k_error, JStr(<<"n", "o">>)>> >>),
     UpstreamError(JStr(<<"b", "a", "d", " ", "k", "e", "y">>)),
     UpstreamError(JStr(<<>>)), UpstreamError(JNull), UpstreamError(JNum(42))}

Statuses == {200, 204, 401, 500}

\* process.env.OPENROUTER_API_KEY
ApiKeys == {Undef, JStr(<<>>), JStr(<<"k">>)}

\* req.body after express.json(): undefined when no JSON body was read, an
\* object or an array otherwise.
Bodies ==
    {Undef, JObj(<<>>), JArr(<<>>),
     JObj(<< <<k_image, JStr(<<>>)>> >>), JObj(<< <<k_image, JNull>> >>),
     JObj(<< <<k_image, JStr(<<"d", "a", "t", "a", ":", ",", "x">>)>> >>)}

(***************************************************************************)
(* The state: the server's credential, and one request at a time (requests *)
(* share nothing).                                                         *)
(***************************************************************************)
VARIABLES
    apiKey,     \* process.env.OPENROUTER_API_KEY
    pc,         \* where the handler is: idle, fetch, readError, readOk, finished
    body,       \* req.body
    calls,      \* calls of fetch made for this request
    sent,       \* the responses the handler has sent: <<[status, body]>>
    uncaught,   \* the exception that left the handler, or "none"
    status,     \* response.status (0 before the upstream answered)
    data,       \* what response.json() settled to
    reply       \* the reply text data carries, by its parts

vars == <<apiKey, pc, body, calls, sent, uncaught, status, data, reply>>

Init ==
    /\ apiKey \in ApiKeys
    /\ pc = "idle"
    /\ body = Undef
    /\ calls = 0
    /\ sent = <<>>
    /\ uncaught = "none"
    /\ status = 0
    /\ data = Undef
    /\ reply = NoReply

\* The handler ends with outcome o: a response goes out, or the exception
\* leaves the async function.
Finish(o) ==
    /\ pc' = "finished"
    /\ sent' = IF o.t = "respond" THEN Append(sent, [status |-> o.status, body |-> o.body])
               ELSE sent
    /\ uncaught' = IF o.t = "throw" THEN o.error ELSE uncaught

\* Lines 49-59, outside the try block.
Preamble(key, b) ==
    IF NoApiKey(key) THEN Respond(500, ErrorBody(MsgNoKey))
    ELSE IF Nullish(b) THEN Throw("TypeError")
    ELSE IF NoImage(b) THEN Respond(400, ErrorBody(MsgNoImage))
    ELSE [t |-> "fetch", status |-> 0, body |-> Undef, error |-> "none"]

\* A request arrives: lines 48-62, up to the await of fetch.
Receive(b) ==
    /\ pc = "idle"
    /\ body' = b
    /\ IF Preamble(apiKey, b).t = "fetch"
       THEN /\ pc' = "fetch"
            /\ calls' = calls + 1
            /\ UNCHANGED <<sent, uncaught>>
       ELSE /\ Finish(Preamble(apiKey, b))
            /\ UNCHANGED calls
    /\ UNCHANGED <<apiKey, status, data, reply>>

\* fetch rejects (no connection): the catch block answers.
FetchReject ==
    /\ pc = "fetch"
    /\ Finish(Catch(Throw("fetch failed")))
    /\ UNCHANGED <<apiKey, body, calls, status, data, reply>>

\* fetch resolves with a response of status st: line 88.
FetchResolve(st) ==
    /\ pc = "fetch"
    /\ status' = st
    /\ pc' = IF ResponseOk(st) THEN "readOk" ELSE "readError"
    /\ UNCHANGED <<apiKey, body, calls, sent, uncaught, data, reply>>

\* Lines 89-94: the error body is read and the 502 sent.
ReadError(d) ==
    /\ pc = "readError"
    /\ data' = d
    /\ Finish(Catch(HandleError(status, d)))
    /\ UNCHANGED <<apiKey, body, calls, status, reply>>

\* Lines 97-115 on a completion that carries the reply text r.
ReadReply(r) ==
    /\ pc = "readOk"
    /\ reply' = r
    /\ data' = Completion(JStr(ReplyChars(r)))
    /\ Finish(Catch(HandleOk(data')))
    /\ UNCHANGED <<apiKey, body, calls, status>>

\* Lines 97-115 on any other 2xx body.
ReadOdd(d) ==
    /\ pc = "readOk"
    /\ data' = d
    /\ Finish(Catch(HandleOk(d)))
    /\ UNCHANGED <<apiKey, body, calls, status, reply>>

\* The next request starts from nothing: the handler keeps no state.
NextRequest ==
    /\ pc = "finished"
    /\ pc' = "idle"
    /\ body' = Undef
    /\ calls' = 0
    /\ sent' = <<>>
    /\ uncaught' = "none"
    /\ status' = 0
    /\ data' = Undef
    /\ reply' = NoReply
    /\ UNCHANGED apiKey

Next ==
    \/ \E b \in Bodies : Receive(b)
    \/ FetchReject
    \/ \E st \in Statuses : FetchResolve(st)
    \/ \E d \in ErrorBodies : ReadError(d)
    \/ \E r \in Replies : ReadReply(r)
    \/ \E d \in OddCompletions : ReadOdd(d)
    \/ NextRequest

Spec == Init /\ [][Next]_vars

(***************************************************************************)
(* What the claims speak of.                                               *)
(***************************************************************************)
Done == pc = "finished"

\* The handler answered once, with status st and JSON body b.
Answered(st, b) == sent = <<[status |-> st, body |-> b]>>
AnsweredStatus(st) == Len(sent) = 1 /\ sent[1].status = st

\* The error member of the one answer sent, and the records of its results.
ErrorSent == sent[1].body.v[1][2]
RecordsSent == sent[1].body.v[1][2].v

CredentialSet == apiKey.k = "str" /\ apiKey.v # <<>>

\* The body was read and holds no image, or an empty one.
ImageMissing ==
    /\ body.k = "obj" \/ body = JArr(<<>>)
    /\ \A i \in 1..Len(body.v) :
          body.v[i][1] = k_image => body.v[i][2] \in {JStr(<<>>), JNull}

\* The upstream answered 2xx with a completion carrying the reply text.
TextReplied == ResponseOk(status) /\ data = Completion(JStr(ReplyChars(reply)))

\* The reply was exactly one JSON object, with nothing around it.
PlainDoc == TextReplied /\ Len(reply.docs) = 1 /\ reply.lead = <<>> /\ reply.trail = <<>>

\* The results member of that object as the upstream wrote it (Undef: none).
ResultsWritten ==
    IF reply.docs[1].v = <<>> THEN Undef ELSE reply.docs[1].v[1][2]

Has(s, c) == \E i \in 1..Len(s) : s[i] = c

\* Some "{" of t has a "}" after it.
HasBracePair(t) == \E i, j \in 1..Len(t) : i < j /\ t[i] = "{" /\ t[j] = "}"

\* From the first "{" of t to its last "}".
BraceRegion(t) ==
    SubSeq(t, CHOOSE i \in 1..Len(t) : t[i] = "{" /\ \A h \in 1..(i - 1) : t[h] # "{",
              CHOOSE j \in 1..Len(t) : t[j] = "}" /\ \A h \in (j + 1)..Len(t) : t[h] # "}")

\* C1 as stated: a request with no image is answered 400 {error: string} and
\* makes no upstream call, whether or not the credential is set.
C1_Original ==
    (Done /\ ImageMissing) =>
        /\ AnsweredStatus(400)
        /\ ErrorSent.k = "str"
        /\ calls = 0

\* C1, amended: a request whose body was read and has no image (absent or
\* empty) makes no upstream call and is answered once with {error: string}:
\* 400 when the credential is set, 500 (missing API key) when it is not.
C1_MissingImage ==
    (Done /\ ImageMissing) =>
        /\ calls = 0
        /\ status = 0
        /\ IF CredentialSet THEN Answered(400, ErrorBody(MsgNoImage))
           ELSE Answered(500, ErrorBody(MsgNoKey))
        /\ ErrorSent.k = "str"

\* C1: an empty image with the credential set was answered 400.
C1_Witness ==
    /\ Done /\ CredentialSet
    /\ body = JObj(<< <<k_image, JStr(<<>>)>> >>)
    /\ AnsweredStatus(400)

\* C2 as stated: when the matched region parses to an object whose results is
\* absent or is no sequence, the answer is 200 {results: []}, never an error.
C2_Original ==
    (Done /\ PlainDoc /\ ResultsWritten.k # "arr") =>
        Answered(200, ResultsBody(<<>>))

\* C3 as stated: every request ends with exactly one response, a JSON body
\* with status 200, 400, 500 or 502; no failure leaves the handler uncaught.
C3_Original ==
    /\ uncaught = "none"
    /\ Len(sent) <= 1
    /\ Done =>
          /\ Len(sent) = 1
          /\ sent[1].status \in {200, 400, 500, 502}
          /\ sent[1].body.k = "obj"

\* C4 as stated: around the prompt's reply, whatever the leading and trailing
\* prose (braces included), the answer is the one record reg, "AB12 CDE", false.
C4_Original ==
    (Done /\ TextReplied /\ reply.docs = <<PromptReply>>) =>
        Answered(200, ResultsBody(<<RegRecord>>))

\* C4, amended: around the prompt's reply, for every leading prose that holds
\* no "{" and every trailing prose that holds no "}", the answer is the one
\* record reg, "AB12 CDE", false.
C4_BraceFreeProse ==
    (Done /\ TextReplied /\ reply.docs = <<PromptReply>>
          /\ ~Has(reply.lead, "{") /\ ~Has(reply.trail, "}")) =>
        Answered(200, ResultsBody(<<RegRecord>>))

\* C4: the prompt's reply between "x}" and "{x" gave the one record.
C4_Witness ==
    /\ Done /\ TextReplied /\ reply.docs = <<PromptReply>>
    /\ reply.lead = <<"x", "}">> /\ reply.trail = <<"{", "x">>
    /\ Answered(200, ResultsBody(<<RegRecord>>))

\* C5 as stated: when results is a sequence of n elements, whatever they are,
\* the answer is 200 with n records, record i the coercion of element i.
C5_Original ==
    (Done /\ PlainDoc /\ ResultsWritten.k = "arr") =>
        /\ AnsweredStatus(200)
        /\ Len(RecordsSent) = Len(ResultsWritten.v)
        /\ \A i \in 1..Len(RecordsSent) : RecordsSent[i] = Coerce(ResultsWritten.v[i])

\* C6 as stated: every record of a 200 answer has kind reg or vin, a text
\* value and a boolean uncertain, whatever the upstream element held.
C6_Original ==
    (Done /\ AnsweredStatus(200)) =>
        \A i \in 1..Len(RecordsSent) :
            /\ GetProp(RecordsSent[i], k_type) \in {JStr(s_reg), JStr(s_vin)}
            /\ GetProp(RecordsSent[i], k_value).k = "str"
            /\ GetProp(RecordsSent[i], k_uncertain).k = "bool"

ReplyTextMissing ==
    /\ ResponseOk(status)
    /\ data \in {JObj(<<>>), JObj(<< <<k_choices, JArr(<<>>)>> >>), Completion(JNull)}

\* C8: on a 2xx reply whose text is missing, empty, or holds no "{" with a
\* "}" after it, the answer is 502 with the fixed message, and no results.
C8_NoBracePairIs502 ==
    (Done /\ (ReplyTextMissing \/ (TextReplied /\ ~HasBracePair(ReplyChars(reply))))) =>
        Answered(502, ErrorBody(MsgNoParse))

\* C8: the reply text "}{" was answered 502.
C8_Witness ==
    /\ Done /\ TextReplied
    /\ ReplyChars(reply) = <<"}", "{">>
    /\ Answered(502, ErrorBody(MsgNoParse))

\* C9 as stated: a non-2xx upstream status is answered 502, with the
\* upstream's message when its body has one and the fallback otherwise, after
\* exactly one upstream call.
C9_Original ==
    (Done /\ status # 0 /\ ~ResponseOk(status)) =>
        /\ AnsweredStatus(502)
        /\ calls = 1
        /\ ErrorSent =
              IF /\ data.k = "obj" /\ data.v # <<>>
                 /\ data.v[1][2].k = "obj" /\ data.v[1][2].v # <<>>
                 /\ ~Nullish(data.v[1][2].v[1][2])
              THEN data.v[1][2].v[1][2]
              ELSE MsgUpstream(status)

\* C10: when the region from the first "{" to the last "}" is not valid JSON
\* (two objects side by side among the cases), the answer is 500 with the
\* parse exception's message: not 502, and no results.
C10_BadRegionIs500 ==
    (Done /\ TextReplied
          /\ \/ Len(reply.docs) = 2
             \/ /\ HasBracePair(ReplyChars(reply))
                /\ ~JSONParse(BraceRegion(ReplyChars(reply))).ok) =>
        Answered(500, ErrorBody(ErrMessage("SyntaxError")))

\* C10: two objects side by side were answered 500.
C10_Witness ==
    /\ Done /\ TextReplied
    /\ reply.docs = <<PromptReply, Doc(JArr(<<VinRecord>>))>>
    /\ Answered(500, ErrorBody(ErrMessage("SyntaxError")))

====
